---- MODULE Spec2Model ----
(***************************************************************************)
(* A model of the STUN probing scripts nat_mapping_behavior_checker.py and *)
(* nat_port_allocation_checker.py: the binding message codec of StunClient *)
(* (create_binding_request, parse_binding_response), one probe round trip  *)
(* (get_external_address) and the two batch programs that interpret the    *)
(* probes (check_nat_mapping_behavior, check_port_allocation).             *)
(*                                                                         *)
(* Bytes are numbers 0..255 and a bytes object is a sequence of them.      *)
(* Python offsets are 0-based: the byte at Python offset k is data[k+1].   *)
(* None is the empty tuple; a port that is not None is the 1-tuple <<p>>,  *)
(* a dotted-quad address is the 4-tuple of its octets.                     *)
(***************************************************************************)
EXTENDS Integers, Sequences, FiniteSets, TLC

VARIABLES
    pc,             \* where the modelled program stands
    \* ---- StunClient.parse_binding_response
    sent,           \* what the responder put on the wire (the input's description)
    data,           \* the received buffer
    pos,            \* the attribute loop's position
    external_ip,    \* the single result slot, address half
    external_port,  \* the single result slot, port half
    logged,         \* the logger.error lines of the header validation
    ret,            \* once pc is "returned" or "raised": what the call produced
    \* ---- StunClient.create_binding_request
    software,       \* the SOFTWARE string
    request,        \* the returned message
    \* ---- check_nat_mapping_behavior / check_port_allocation
    prog,           \* which of the two programs runs
    num,            \* num_servers / num_ports
    port_arg,       \* source_port / start_port
    i,              \* number of loop iterations completed
    results,        \* the results list
    probes,         \* one entry per probe issued so far: its local port and outcome
    out,            \* what the analysis logged: the verdict or the statistics
    socks           \* the sockets created and not yet closed

parseVars == <<sent, data, pos, external_ip, external_port, logged, ret>>
reqVars   == <<software, request>>
batchVars == <<prog, num, port_arg, i, results, probes, out, socks>>
vars      == <<pc, parseVars, reqVars, batchVars>>

None == <<>>

\* ------------------------------------------------------------------------
\* Protocol constants
\* ------------------------------------------------------------------------
BINDING_REQUEST == 1
BINDING_RESPONSE == 257
BINDING_ERROR_RESPONSE == 273
MAPPED_ADDRESS == 1
XOR_MAPPED_ADDRESS == 32
SOFTWARE == 32802
MAGIC_COOKIE == 554869826
IPv4 == 1
HeaderLen == 20

\* ------------------------------------------------------------------------
\* Bounds of the model
\* ------------------------------------------------------------------------
MaxAttrs == 2          \* attributes in a generated response
MaxCut == 10           \* bytes a generated response may lose at its end
MaxSoftwareLen == 24   \* longest SOFTWARE string tried
MaxServers == 3        \* largest num_servers tried
MaxPorts == 4          \* largest num_ports tried

\* ------------------------------------------------------------------------
\* Python and struct helpers
\* ------------------------------------------------------------------------
Min(a, b) == IF a < b THEN a ELSE b

\* data[a:b]: slices are clipped to the buffer, never an IndexError.
Slice(d, a, b) == SubSeq(d, a + 1, Min(b, Len(d)))

\* b'\x00' * n
Zeros(n) == [k \in 1..n |-> 0]

\* struct.pack('>H', n)
pack_H(n) == <<n \div 256, n % 256>>

\* struct.unpack('>H', two bytes)
unpack_H(b) == b[1] * 256 + b[2]

\* struct.pack('>I', n). A 32-bit word is kept in packed form, as its four
\* octets, most significant first: the model checker's integers are signed
\* 32-bit, so a word with the top bit set has no integer value here.
pack_I(n) == <<n \div 16777216, (n \div 65536) % 256, (n \div 256) % 256, n % 256>>

\* Python's a ^ b on non-negative integers.
RECURSIVE Xor(_, _)
Xor(a, b) ==
    IF a = 0 THEN b
    ELSE IF b = 0 THEN a
    ELSE (((a % 2) + (b % 2)) % 2) + 2 * Xor(a \div 2, b \div 2)

\* x ^ y on two 32-bit words in packed form.
Xor32(x, y) == [k \in 1..4 |-> Xor(x[k], y[k])]

\* ------------------------------------------------------------------------
\* StunClient.parse_binding_response
\* ------------------------------------------------------------------------

\* (HeaderError with the cookie checked before the message type.)
HeaderErrorFlipped(d) ==
    IF Len(d) < HeaderLen THEN <<"TooShort">>
    ELSE IF Slice(d, 4, 8) # pack_I(MAGIC_COOKIE) THEN <<"BadCookie">>
    ELSE IF unpack_H(Slice(d, 0, 2)) # BINDING_RESPONSE THEN <<"UnexpectedType">>
    ELSE None

\* The three header checks in the order the code makes them, each naming
\* its logger.error line; None when the header passes. The cookie is
\* compared in packed form.
HeaderError(d) ==
    IF Len(d) < HeaderLen THEN <<"TooShort">>
    ELSE IF unpack_H(Slice(d, 0, 2)) # BINDING_RESPONSE THEN <<"UnexpectedType">>
    ELSE IF Slice(d, 4, 8) # pack_I(MAGIC_COOKIE) THEN <<"BadCookie">>
    ELSE None

\* while pos < len(data): if pos + 4 > len(data): break
LoopContinues(d, p) == p < Len(d) /\ ~(p + 4 > Len(d))

\* (XorPort with the low half of the cookie.)
XorPortLowHalf(xport) == Xor(xport, MAGIC_COOKIE % 65536)

\* port = xport ^ (MAGIC_COOKIE >> 16)
XorPort(xport) == Xor(xport, MAGIC_COOKIE \div 65536)

\* ip_int = xip ^ MAGIC_COOKIE; ip = inet_ntoa(pack('>I', ip_int))
XorAddress(xip) == Xor32(xip, pack_I(MAGIC_COOKIE))

\* pos after an attribute's value: pos += attr_length, then up to the next
\* multiple of four.
NextPos(p, attr_length) ==
    p + attr_length + (IF attr_length % 4 # 0 THEN 4 - (attr_length % 4) ELSE 0)

\* (Store that keeps an earlier result.)
StoreFirstWins(slot, ip, port) ==
    IF slot.ip = None THEN [ip |-> ip, port |-> <<port>>] ELSE slot

\* The slot after an address attribute decoded to (ip, port): both halves
\* are assigned together, whatever the slot held.
Store(slot, ip, port) == [ip |-> ip, port |-> <<port>>]

\* One iteration of the attribute loop from position p with the result slot
\* as given. struct.unpack raises struct.error on a slice that is not of
\* the format's size, and socket.inet_ntoa raises OSError on a slice that
\* is not four bytes long.
LoopBody(d, p, slot) ==
    LET attr_type   == unpack_H(Slice(d, p, p + 2))
        attr_length == unpack_H(Slice(d, p + 2, p + 4))
        q           == p + 4
        head        == Slice(d, q, q + 4)
        tail        == Slice(d, q + 4, q + 8)
        decodes     == attr_type \in {MAPPED_ADDRESS, XOR_MAPPED_ADDRESS}
                       /\ attr_length >= 8
        family      == head[2]
        rawport     == unpack_H(SubSeq(head, 3, 4))
    IN  IF decodes /\ Len(head) # 4
          THEN [raised |-> TRUE, pos |-> q, slot |-> slot]
        ELSE IF decodes /\ family = IPv4 /\ Len(tail) # 4
          THEN [raised |-> TRUE, pos |-> q, slot |-> slot]
        ELSE IF decodes /\ family = IPv4
          THEN [raised |-> FALSE,
                pos    |-> NextPos(q, attr_length),
                slot   |-> IF attr_type = MAPPED_ADDRESS
                             THEN Store(slot, tail, rawport)
                             ELSE Store(slot, XorAddress(tail), XorPort(rawport))]
        ELSE [raised |-> FALSE, pos |-> NextPos(q, attr_length), slot |-> slot]

\* The attribute loop run to its end.
RECURSIVE AttributeLoop(_, _, _)
AttributeLoop(d, p, slot) ==
    IF ~LoopContinues(d, p)
      THEN [raised |-> FALSE, ip |-> slot.ip, port |-> slot.port]
    ELSE LET s == LoopBody(d, p, slot)
         IN  IF s.raised
               THEN [raised |-> TRUE, ip |-> None, port |-> None]
               ELSE AttributeLoop(d, s.pos, s.slot)

\* The whole call: its returned pair, or that it raised.
parse_binding_response(d) ==
    IF HeaderError(d) # None
      THEN [raised |-> FALSE, ip |-> None, port |-> None]
      ELSE AttributeLoop(d, HeaderLen, [ip |-> None, port |-> None])

\* ------------------------------------------------------------------------
\* Responses put on the wire by a responder (the parser's inputs)
\* ------------------------------------------------------------------------

\* Wire format: type, declared length, value, zero padding to a multiple
\* of four.
EncodeAttr(a) ==
    pack_H(a.type) \o pack_H(a.length) \o a.value
        \o Zeros((4 - (Len(a.value) % 4)) % 4)

RECURSIVE EncodeAttrs(_)
EncodeAttrs(attrs) ==
    IF attrs = <<>> THEN <<>>
    ELSE EncodeAttr(Head(attrs)) \o EncodeAttrs(Tail(attrs))

\* The message a description stands for: the 20-byte header (type, length
\* of the body, cookie, a 12-byte transaction id), the attributes, and the
\* last `cut` bytes lost.
Encode(m) ==
    LET body == EncodeAttrs(m.attrs)
        full == pack_H(m.message_type) \o pack_H(Len(body)) \o m.cookie
                    \o Zeros(12) \o body
    IN  SubSeq(full, 1, Len(full) - Min(m.cut, Len(full)))

\* An address attribute as both address attribute types lay it out: a zero
\* byte, the family, the 16-bit port, the 32-bit address.
AddrAttr(type, family, rawport, rawip) ==
    [type |-> type, length |-> 8,
     value |-> <<0, family>> \o pack_H(rawport) \o rawip]

\* What a server that saw (ip, port) sends as XOR_MAPPED_ADDRESS.
XorAttr(ip, port) ==
    AddrAttr(XOR_MAPPED_ADDRESS, IPv4, Xor(port, 8466),
             Xor32(ip, <<33, 18, 164, 66>>))

\* The IPv4 family and one the parser does not accept.
Families == {IPv4, 2}
RawPorts == {8466, 54321}
RawIP == <<192, 0, 2, 1>>
BadCookieWord == <<33, 18, 164, 67>>

AddressAttrs ==
    {AddrAttr(t, f, p, RawIP) :
        t \in {MAPPED_ADDRESS, XOR_MAPPED_ADDRESS}, f \in Families, p \in RawPorts}

\* Address attributes that declare fewer than 8 bytes.
ShortAttrs ==
    {[type |-> t, length |-> 4, value |-> <<0, IPv4>> \o pack_H(54321)] :
        t \in {MAPPED_ADDRESS, XOR_MAPPED_ADDRESS}}

\* An attribute the parser skips, of a length that needs padding.
OtherAttrs == {[type |-> SOFTWARE, length |-> 3, value |-> <<80, 121, 116>>]}

AttrChoices == AddressAttrs \cup ShortAttrs \cup OtherAttrs

AttrSeqs == UNION {[1..k -> AttrChoices] : k \in 0..MaxAttrs}

GeneratedResponses ==
    [message_type : {BINDING_RESPONSE, BINDING_ERROR_RESPONSE},
     cookie       : {pack_I(MAGIC_COOKIE), BadCookieWord},
     attrs        : AttrSeqs,
     cut          : 0..MaxCut]

\* Endpoints a server may have seen, and their responses under either
\* address attribute.
Addrs == {<<192, 0, 2, 1>>, <<0, 0, 0, 0>>, <<255, 255, 255, 255>>,
          <<33, 18, 164, 66>>, <<203, 0, 113, 5>>}
Ports == {0, 1, 8466, 42050, 40000, 54321, 65535}

EndpointResponses ==
    {[message_type |-> BINDING_RESPONSE, cookie |-> pack_I(MAGIC_COOKIE),
      attrs |-> <<[XorAttr(a, p) EXCEPT !.type = t]>>, cut |-> 0] :
        a \in Addrs, p \in Ports, t \in {MAPPED_ADDRESS, XOR_MAPPED_ADDRESS}}

\* ------------------------------------------------------------------------
\* parse_binding_response, step by step
\* ------------------------------------------------------------------------
Returned(ip, port) == [raised |-> FALSE, ip |-> ip, port |-> port]
Raised == [raised |-> TRUE, ip |-> None, port |-> None]

reqIdle == software = <<>> /\ request = <<>>
batchIdle ==
    /\ prog = "none" /\ num = 0 /\ port_arg = 0 /\ i = 0
    /\ results = <<>> /\ probes = <<>> /\ out = None /\ socks = {}
parseIdle ==
    /\ sent = None /\ data = <<>> /\ pos = 0 /\ external_ip = None
    /\ external_port = None /\ logged = None
    /\ ret = Returned(None, None)

InitParse ==
    /\ sent \in GeneratedResponses \cup EndpointResponses
    /\ data = Encode(sent)
    /\ pc = "parse"
    /\ pos = 0 /\ external_ip = None /\ external_port = None
    /\ logged = None /\ ret = Returned(None, None)
    /\ reqIdle /\ batchIdle

\* The length, message type and cookie checks, each returning (None, None)
\* after its logger.error line; otherwise the loop is entered.
ParseHeader ==
    /\ pc = "parse"
    /\ IF HeaderError(data) # None
         THEN /\ logged' = HeaderError(data)
              /\ ret' = Returned(None, None)
              /\ pc' = "returned"
              /\ UNCHANGED <<pos, external_ip, external_port>>
         ELSE /\ pos' = HeaderLen
              /\ external_ip' = None
              /\ external_port' = None
              /\ pc' = "loop"
              /\ UNCHANGED <<logged, ret>>
    /\ UNCHANGED <<sent, data, reqVars, batchVars>>

\* One iteration of the while loop; an exception leaves the call.
ParseAttribute ==
    /\ pc = "loop"
    /\ LoopContinues(data, pos)
    /\ LET s == LoopBody(data, pos, [ip |-> external_ip, port |-> external_port])
       IN  /\ pos' = s.pos
           /\ external_ip' = s.slot.ip
           /\ external_port' = s.slot.port
           /\ IF s.raised
                THEN pc' = "raised" /\ ret' = Raised
                ELSE pc' = "loop" /\ UNCHANGED ret
    /\ UNCHANGED <<sent, data, logged, reqVars, batchVars>>

\* The loop ends and the slot is returned.
ParseReturn ==
    /\ pc = "loop"
    /\ ~LoopContinues(data, pos)
    /\ ret' = Returned(external_ip, external_port)
    /\ pc' = "returned"
    /\ UNCHANGED <<sent, data, pos, external_ip, external_port, logged,
                   reqVars, batchVars>>

NextParse == ParseHeader \/ ParseAttribute \/ ParseReturn

SpecParse == InitParse /\ [][NextParse]_vars

\* ------------------------------------------------------------------------
\* Properties of parse_binding_response (checked under SpecParse)
\* ------------------------------------------------------------------------
ParseEnded == pc \in {"returned", "raised"}

\* The response has a BindingResponse header with the published cookie and
\* arrived whole.
WholeResponse ==
    /\ sent.message_type = 257
    /\ sent.cookie = <<33, 18, 164, 66>>
    /\ sent.cut = 0

\* The port and address fields of an 8-byte address value, as they lie in
\* the buffer.
PortField(a) == unpack_H(SubSeq(a.value, 3, 4))
AddressField(a) == SubSeq(a.value, 5, 8)

\* C3: for every address a and port p tried, a response whose only address
\* attribute is XOR_MAPPED_ADDRESS carrying p XOR 0x2112 and a XOR 0x2112A442
\* is decoded to exactly (a, p); the same bytes under MAPPED_ADDRESS are
\* returned as they lie in the buffer, without any XOR.
C3_XorRoundTrip ==
    (ParseEnded /\ WholeResponse /\ Len(sent.attrs) = 1) =>
        \A a \in Addrs, p \in Ports :
            /\ sent.attrs[1] = XorAttr(a, p) =>
                   pc = "returned" /\ ret = Returned(a, <<p>>)
            /\ sent.attrs[1] = [XorAttr(a, p) EXCEPT !.type = 1] =>
                   /\ pc = "returned"
                   /\ ret = Returned(AddressField(XorAttr(a, p)),
                                     <<PortField(XorAttr(a, p))>>)

C3_Witness ==
    /\ pc = "returned"
    /\ WholeResponse
    /\ sent.attrs = <<XorAttr(<<192, 0, 2, 1>>, 54321)>>
    /\ sent.attrs[1].value # <<0, 1>> \o pack_H(54321) \o <<192, 0, 2, 1>>
    /\ ret = Returned(<<192, 0, 2, 1>>, <<54321>>)

\* The header fields of the received buffer.
CookieField == Slice(data, 4, 8)
TypeField == unpack_H(Slice(data, 0, 2))
NoEndpoint ==
    pc = "returned" /\ ret = Returned(None, None)
        /\ external_ip = None /\ external_port = None

\* C7 as stated: a buffer shorter than 20 bytes yields Malformed, and a
\* buffer (of at least 20 bytes) whose cookie is not 0x2112A442 yields
\* BadCookie whatever its message type; no endpoint in either case.
C7_AsStated ==
    ParseEnded =>
        /\ Len(data) < 20 => logged = <<"TooShort">> /\ NoEndpoint
        /\ (Len(data) >= 20 /\ CookieField # <<33, 18, 164, 66>>) =>
               logged = <<"BadCookie">> /\ NoEndpoint

\* C7, amended: a buffer shorter than 20 bytes yields Malformed; a buffer of
\* at least 20 bytes whose cookie is not 0x2112A442 yields BadCookie when its
\* message type is BindingResponse and UnexpectedType when it is not (the
\* type is checked first); in none of these cases is an endpoint returned.
C7_HeaderValidation ==
    ParseEnded =>
        /\ Len(data) < 20 => logged = <<"TooShort">> /\ NoEndpoint
        /\ (Len(data) >= 20 /\ CookieField # <<33, 18, 164, 66>>) =>
               /\ NoEndpoint
               /\ logged = IF TypeField = 257 THEN <<"BadCookie">>
                                              ELSE <<"UnexpectedType">>

C7_Witness ==
    /\ pc = "returned"
    /\ Len(data) > 20
    /\ CookieField # <<33, 18, 164, 66>>
    /\ TypeField = 257
    /\ logged = <<"BadCookie">>

\* What the layout rules make of one address attribute with an 8-byte value.
DecodeOf(a) ==
    IF a.type = 1
      THEN Returned(AddressField(a), <<PortField(a)>>)
      ELSE Returned(Xor32(AddressField(a), <<33, 18, 164, 66>>),
                    <<Xor(PortField(a), 8466)>>)

IsAddressAttr(a) == a.type \in {1, 32}
Usable(a) == IsAddressAttr(a) /\ a.length >= 8 /\ a.value[2] = 1

\* The last address attribute of the sequence, as a 1-tuple; <<>> if none.
RECURSIVE LastAddress(_)
LastAddress(attrs) ==
    IF attrs = <<>> THEN <<>>
    ELSE IF IsAddressAttr(attrs[Len(attrs)]) THEN <<attrs[Len(attrs)]>>
    ELSE LastAddress(SubSeq(attrs, 1, Len(attrs) - 1))

\* The last address attribute that is decoded at all, as a 1-tuple.
RECURSIVE LastUsable(_)
LastUsable(attrs) ==
    IF attrs = <<>> THEN <<>>
    ELSE IF Usable(attrs[Len(attrs)]) THEN <<attrs[Len(attrs)]>>
    ELSE LastUsable(SubSeq(attrs, 1, Len(attrs) - 1))

\* A whole response in which both address attribute types appear.
BothPresent ==
    /\ WholeResponse
    /\ \E j \in DOMAIN sent.attrs : sent.attrs[j].type = 1
    /\ \E j \in DOMAIN sent.attrs : sent.attrs[j].type = 32

\* C8 as stated: when both MAPPED_ADDRESS and XOR_MAPPED_ADDRESS are present
\* (each with a full 8-byte value), the endpoint of the one encountered later
\* is returned, whatever the two attributes contain.
C8_AsStated ==
    (ParseEnded /\ BothPresent
        /\ \A j \in DOMAIN sent.attrs :
              IsAddressAttr(sent.attrs[j]) => sent.attrs[j].length = 8) =>
        /\ pc = "returned"
        /\ ret = DecodeOf(LastAddress(sent.attrs)[1])

\* C8, amended: when both are present, the endpoint returned is that of the
\* latest address attribute that is decoded at all, that is, declares at
\* least 8 bytes and has family 0x01; an attribute that is not decoded leaves
\* the result of an earlier one in place, and (None, None) is returned when
\* neither is decoded.
C8_LastDecodedWins ==
    (ParseEnded /\ BothPresent) =>
        /\ pc = "returned"
        /\ ret = IF LastUsable(sent.attrs) = <<>>
                   THEN Returned(None, None)
                   ELSE DecodeOf(LastUsable(sent.attrs)[1])

C8_Witness ==
    /\ pc = "returned"
    /\ BothPresent
    /\ Len(sent.attrs) = 2
    /\ Usable(sent.attrs[1]) /\ Usable(sent.attrs[2])
    /\ DecodeOf(sent.attrs[1]) # DecodeOf(sent.attrs[2])
    /\ ret = DecodeOf(sent.attrs[2])

\* C10 as stated: with a valid header the call never raises and returns
\* either a complete (ip, port) pair or (None, None), also when an address
\* attribute declares more bytes than the buffer holds.
C10_AsStated ==
    /\ pc # "raised"
    /\ pc = "returned" => (ret.ip = None <=> ret.port = None)

\* ------------------------------------------------------------------------
\* StunClient.create_binding_request
\* ------------------------------------------------------------------------

\* b'Python STUN Client', and the string of any other length n made of the
\* same bytes repeated.
PythonStunClient ==
    <<80, 121, 116, 104, 111, 110, 32, 83, 84, 85, 78, 32,
      67, 108, 105, 101, 110, 116>>
SoftwareOfLen(n) ==
    [k \in 1..n |-> PythonStunClient[((k - 1) % Len(PythonStunClient)) + 1]]

\* random.randbytes(12): a few of the 2^96 values.
TransactionIds == {[k \in 1..12 |-> b] : b \in {0, 7, 128, 255}}

\* (SoftwarePadding without the test for an aligned length.)
SoftwarePaddingAlways(n) == 4 - (n % 4)

\* The number of zero bytes appended to the string:
\* b'\x00' * (4 - len(software) % 4) if len(software) % 4 else b''
SoftwarePadding(n) == IF n % 4 # 0 THEN 4 - (n % 4) ELSE 0

\* struct.pack('>HHI12s', message_type, length, MAGIC_COOKIE, transaction_id)
PackHeader(message_type, message_length, transaction_id) ==
    pack_H(message_type) \o pack_H(message_length) \o pack_I(MAGIC_COOKIE)
        \o transaction_id

\* The message built from a SOFTWARE string and a transaction id.
create_binding_request(sw, transaction_id) ==
    LET software_padded == sw \o Zeros(SoftwarePadding(Len(sw)))
        software_attr   == pack_H(SOFTWARE) \o pack_H(Len(sw)) \o software_padded
        message_length  == Len(software_attr)
    IN  PackHeader(BINDING_REQUEST, message_length, transaction_id) \o software_attr

InitRequest ==
    /\ pc = "create"
    /\ software \in {SoftwareOfLen(n) : n \in 0..MaxSoftwareLen}
    /\ request = <<>>
    /\ parseIdle /\ batchIdle

CreateRequest ==
    /\ pc = "create"
    /\ \E transaction_id \in TransactionIds :
           request' = create_binding_request(software, transaction_id)
    /\ pc' = "created"
    /\ UNCHANGED <<software, parseVars, batchVars>>

NextRequest == CreateRequest

SpecRequest == InitRequest /\ [][NextRequest]_vars

\* C9: for every length of the SOFTWARE string, the message is 20 bytes plus
\* a multiple of 4 long, its header length field is the number of bytes after
\* the header, its SOFTWARE attribute (type 0x8022) declares the unpadded
\* length of the string and carries the string followed by
\* (4 - length % 4) % 4 zero bytes and nothing else.
C9_RequestLayout ==
    pc = "created" =>
        LET n   == Len(software)
            pad == (4 - (n % 4)) % 4
        IN  /\ Len(request) >= 24
            /\ (Len(request) - 20) % 4 = 0
            /\ unpack_H(SubSeq(request, 3, 4)) = Len(request) - 20
            /\ SubSeq(request, 21, 22) = <<128, 34>>
            /\ unpack_H(SubSeq(request, 23, 24)) = n
            /\ SubSeq(request, 25, 24 + n) = software
            /\ Len(request) = 24 + n + pad
            /\ \A k \in (24 + n + 1)..Len(request) : request[k] = 0

C9_Witness ==
    /\ pc = "created"
    /\ software = PythonStunClient
    /\ Len(request) = 44
    /\ SubSeq(request, 43, 44) = <<0, 0>>
    /\ SubSeq(request, 1, 8) = <<0, 1, 0, 24, 33, 18, 164, 66>>

\* ------------------------------------------------------------------------
\* StunClient.get_external_address: one probe round trip
\* ------------------------------------------------------------------------

\* len(STUN_SERVERS) of nat_mapping_behavior_checker.py
NumStunServers == 13

\* The ports the operating system may hand to a socket bound to port 0.
EphemeralPorts == {49152, 49153}

\* sock.bind(('0.0.0.0', port)): the local port the socket ends up with.
BoundPorts(port) == IF port = 0 THEN EphemeralPorts ELSE {port}

\* What can happen to one probe once its socket exists: bind may fail,
\* gethostbyname may fail, recvfrom may time out, or bytes come back.
ProbeEvents(replies) ==
    {[event |-> e, reply |-> None] : e \in {"bind_error", "gaierror", "timeout"}}
        \cup {[event |-> "reply", reply |-> r] : r \in replies}

\* (Caught without the final except Exception clause.)
CaughtNamedOnly(exc) == exc \in {"socket.timeout", "socket.gaierror"}

\* The except clauses: socket.timeout, socket.gaierror, then Exception,
\* which takes every other exception the body can raise (OSError from bind
\* or inet_ntoa, struct.error from unpack).
Caught(exc) ==
    \/ exc = "socket.timeout"
    \/ exc = "socket.gaierror"
    \/ exc \in {"OSError", "struct.error or OSError"}

\* The try body with local port `local` given by bind and environment `ev`:
\* the exception it raises (<<>> if none), the pair parsed, and whether
\* sock.close() was reached.
TryBody(local, ev) ==
    IF ev.event = "bind_error"
      THEN [exc |-> <<"OSError">>, ip |-> None, port |-> None,
            local |-> None, closed |-> FALSE]
    ELSE IF ev.event = "gaierror"
      THEN [exc |-> <<"socket.gaierror">>, ip |-> None, port |-> None,
            local |-> <<local>>, closed |-> FALSE]
    ELSE IF ev.event = "timeout"
      THEN [exc |-> <<"socket.timeout">>, ip |-> None, port |-> None,
            local |-> <<local>>, closed |-> FALSE]
    ELSE LET r == parse_binding_response(Encode(ev.reply))
         IN  IF r.raised
               THEN [exc |-> <<"struct.error or OSError">>, ip |-> None,
                     port |-> None, local |-> <<local>>, closed |-> FALSE]
               ELSE [exc |-> None, ip |-> r.ip, port |-> r.port,
                     local |-> <<local>>, closed |-> TRUE]

\* The whole call: a caught exception is logged and (None, None) returned;
\* `raised` tells whether an exception leaves the call.
get_external_address(local, ev) ==
    LET b == TryBody(local, ev)
    IN  [raised |-> b.exc # None /\ ~Caught(b.exc[1]),
         exc    |-> b.exc,
         ip     |-> b.ip,
         port   |-> b.port,
         local  |-> b.local,
         closed |-> b.closed]

\* if external_ip and external_port: None, and the integer 0, are false.
Truthy(ip, port) == ip # None /\ port # None /\ port[1] # 0

\* ------------------------------------------------------------------------
\* check_nat_mapping_behavior
\* ------------------------------------------------------------------------

\* A whole BindingResponse carrying one XOR_MAPPED_ADDRESS for (ip, port).
Reply(ip, port) ==
    [message_type |-> BINDING_RESPONSE, cookie |-> pack_I(MAGIC_COOKIE),
     attrs |-> <<XorAttr(ip, port)>>, cut |-> 0]

\* Replies that carry no endpoint: one cut short inside its address
\* attribute, one of another message type.
TruncatedReply == [Reply(<<203, 0, 113, 5>>, 40000) EXCEPT !.cut = 2]
ErrorReply == [Reply(<<203, 0, 113, 5>>, 40000) EXCEPT !.message_type = BINDING_ERROR_RESPONSE]

MappingReplies ==
    {Reply(<<203, 0, 113, 5>>, p) : p \in {0, 40000, 40010, 40020}}
        \cup {Reply(<<198, 51, 100, 7>>, 40000), TruncatedReply, ErrorReply}

SourcePorts == {0, 5000}

\* len(selected_servers), selected_servers = random.sample(STUN_SERVERS,
\* min(num_servers, len(STUN_SERVERS)))
NumSelected(num_servers) == Min(num_servers, NumStunServers)

\* (Insufficient with the threshold one lower.)
InsufficientBelowOne(rs) == Len(rs) < 1

\* if len(results) < 2: ... return
Insufficient(rs) == Len(rs) < 2

\* (Detail with the port test first.)
DetailPortFirst(ips, ports) ==
    IF Cardinality(ports) > 1 THEN <<"AddressAndPortDependent">>
    ELSE IF Cardinality(ips) > 1 THEN <<"AddressDependent">>
    ELSE <<>>

\* The refinement logged under EDM.
Detail(ips, ports) ==
    IF Cardinality(ips) = 1 /\ Cardinality(ports) > 1 THEN <<"AddressAndPortDependent">>
    ELSE IF Cardinality(ips) > 1 THEN <<"AddressDependent">>
    ELSE <<>>

\* The verdict lines logged for a results list.
Verdict(rs) ==
    IF Insufficient(rs) THEN <<"Insufficient">>
    ELSE LET ports == {rs[k].port : k \in DOMAIN rs}
             ips   == {rs[k].ip : k \in DOMAIN rs}
         IN  IF Cardinality(ports) = 1 /\ Cardinality(ips) = 1
               THEN <<"EIM">>
               ELSE <<"EDM">> \o Detail(ips, ports)

\* One entry of the probe history.
ProbeRecord(requested, r) ==
    [requested |-> requested, local |-> r.local, exc |-> r.exc,
     ip |-> r.ip, port |-> r.port, closed |-> r.closed]

\* One iteration of the for loop over selected_servers: the probe and the
\* append to results.
MapProbe ==
    /\ pc = "map_loop"
    /\ i < NumSelected(num)
    /\ \E local \in BoundPorts(port_arg), ev \in ProbeEvents(MappingReplies) :
          LET r == get_external_address(local, ev)
          IN  /\ probes' = Append(probes, ProbeRecord(port_arg, r))
              /\ IF r.raised
                   THEN pc' = "crashed" /\ UNCHANGED <<i, results>>
                   ELSE /\ pc' = "map_loop"
                        /\ i' = i + 1
                        /\ results' =
                             IF Truthy(r.ip, r.port)
                               THEN Append(results, [server |-> i + 1, ip |-> r.ip,
                                                     port |-> r.port[1]])
                               ELSE results
    /\ UNCHANGED <<prog, num, port_arg, out, socks, parseVars, reqVars>>

\* After the loop: the analysis and the verdict.
MapAnalyse ==
    /\ pc = "map_loop"
    /\ i = NumSelected(num)
    /\ out' = Verdict(results)
    /\ pc' = "done"
    /\ UNCHANGED <<prog, num, port_arg, i, results, probes, socks, parseVars,
                   reqVars>>

\* ------------------------------------------------------------------------
\* check_port_allocation
\* ------------------------------------------------------------------------
AllocationReplies ==
    {Reply(<<203, 0, 113, 5>>, p) : p \in {0, 5000, 5001, 5002, 5004}}
        \cup {TruncatedReply, ErrorReply}

StartPorts == {10000}

\* A quotient the code computes in floating point, kept as the two integers
\* it divides.
Ratio(n, d) == [num |-> n, den |-> d]

RECURSIVE Sum(_)
Sum(xs) == IF xs = <<>> THEN 0 ELSE Head(xs) + Sum(Tail(xs))

RECURSIVE MinOf(_)
MinOf(xs) ==
    IF Len(xs) = 1 THEN xs[1] ELSE Min(Head(xs), MinOf(Tail(xs)))

RECURSIVE MaxOf(_)
MaxOf(xs) ==
    IF Len(xs) = 1 THEN xs[1]
    ELSE LET m == MaxOf(Tail(xs)) IN IF Head(xs) > m THEN Head(xs) ELSE m

\* port_diff: [ports[i] - ports[i-1] if i > 0 else 0 for i in range(n)][1:]
PortDiff(ports) ==
    SubSeq([k \in 1..Len(ports) |-> IF k > 1 THEN ports[k] - ports[k - 1] ELSE 0],
           2, Len(ports))

\* for i in range(1, n): if ports[i] == ports[i-1] + 1: count += 1
RECURSIVE ConsecutiveFrom(_, _)
ConsecutiveFrom(ports, k) ==
    IF k > Len(ports) THEN 0
    ELSE (IF ports[k] = ports[k - 1] + 1 THEN 1 ELSE 0) + ConsecutiveFrom(ports, k + 1)

\* (ConsecutiveCount that counts every increase.)
ConsecutiveCountIncreasing(ports) ==
    Cardinality({k \in 2..Len(ports) : ports[k] > ports[k - 1]})

ConsecutiveCount(ports) == ConsecutiveFrom(ports, 2)

\* max(external_ports) - min(external_ports) + 1
PortRange(ports) == MaxOf(ports) - MinOf(ports) + 1

\* The statistics logged for a non-empty results list; without results the
\* error line is logged and nothing is computed.
Statistics(rs) ==
    IF rs = <<>> THEN [nodata |-> TRUE]
    ELSE
    LET external_ports   == [k \in 1..Len(rs) |-> rs[k].port]
        n                == Len(external_ports)
        port_diff        == PortDiff(external_ports)
        consecutive_count == ConsecutiveCount(external_ports)
        duplicate_count  == n - Cardinality({external_ports[k] : k \in 1..n})
    IN  [nodata |-> FALSE,
         count |-> Len(rs),
         min |-> MinOf(external_ports),
         max |-> MaxOf(external_ports),
         range |-> PortRange(external_ports),
         port_diff |-> port_diff,
         mean_diff |-> IF port_diff # <<>>
                         THEN Ratio(Sum(port_diff), Len(port_diff))
                         ELSE Ratio(0, 1),
         consecutive_count |-> consecutive_count,
         consecutive_percentage |->
             IF n > 1 THEN Ratio(consecutive_count * 100, n - 1) ELSE Ratio(0, 1),
         duplicate_count |-> duplicate_count,
         duplicate_percentage |-> Ratio(duplicate_count * 100, n)]

\* One iteration of the for loop over range(num_ports): the probe from
\* local port start_port + i and the append to results.
AllocProbe ==
    /\ pc = "alloc_loop"
    /\ i < num
    /\ \E local \in BoundPorts(port_arg + i), ev \in ProbeEvents(AllocationReplies) :
          LET r == get_external_address(local, ev)
          IN  /\ probes' = Append(probes, ProbeRecord(port_arg + i, r))
              /\ IF r.raised
                   THEN pc' = "crashed" /\ UNCHANGED <<i, results>>
                   ELSE /\ pc' = "alloc_loop"
                        /\ i' = i + 1
                        /\ results' =
                             IF Truthy(r.ip, r.port)
                               THEN Append(results, [local |-> r.local[1],
                                                     port |-> r.port[1]])
                               ELSE results
    /\ UNCHANGED <<prog, num, port_arg, out, socks, parseVars, reqVars>>

\* After the loop: the statistics.
AllocAnalyse ==
    /\ pc = "alloc_loop"
    /\ ~(i < num)
    /\ out' = Statistics(results)
    /\ pc' = "done"
    /\ UNCHANGED <<prog, num, port_arg, i, results, probes, socks, parseVars,
                   reqVars>>

\* ------------------------------------------------------------------------
\* The two batch programs
\* ------------------------------------------------------------------------
Init ==
    /\ \/ /\ prog = "mapping"
          /\ pc = "map_loop"
          /\ num \in 0..MaxServers
          /\ port_arg \in SourcePorts
       \/ /\ prog = "allocation"
          /\ pc = "alloc_loop"
          /\ num \in 0..MaxPorts
          /\ port_arg \in StartPorts
    /\ i = 0
    /\ results = <<>>
    /\ probes = <<>>
    /\ out = None
    /\ socks = {}
    /\ parseIdle /\ reqIdle

Next == MapProbe \/ MapAnalyse \/ AllocProbe \/ AllocAnalyse

Spec == Init /\ [][Next]_vars

\* ------------------------------------------------------------------------
\* Properties of the batch programs (checked under Spec)
\* ------------------------------------------------------------------------
MappingDone == prog = "mapping" /\ pc = "done"
AllocationDone == prog = "allocation" /\ pc = "done"

DistinctIPs == {results[k].ip : k \in DOMAIN results}
DistinctPorts == {results[k].port : k \in DOMAIN results}

\* C1: with at least two successful results the verdict is EIM exactly when
\* there is one distinct external IP and one distinct external port;
\* otherwise it is EDM, refined to address-dependent whenever there is more
\* than one distinct IP and to address-and-port-dependent when there is one
\* IP and more than one port. Exactly one of the three is logged.
C1_Classification ==
    (MappingDone /\ Len(results) >= 2) =>
        out = IF Cardinality(DistinctIPs) = 1 /\ Cardinality(DistinctPorts) = 1
                THEN <<"EIM">>
              ELSE IF Cardinality(DistinctIPs) > 1
                THEN <<"EDM", "AddressDependent">>
              ELSE <<"EDM", "AddressAndPortDependent">>

\* Three results, both the IP and the port vary: address-dependent.
C1_Witness ==
    /\ MappingDone
    /\ Len(results) = 3
    /\ Cardinality(DistinctIPs) = 2
    /\ Cardinality(DistinctPorts) = 2
    /\ out = <<"EDM", "AddressDependent">>

\* The probes whose response decoded to an endpoint.
Decoded(p) == p.ip # None /\ p.port # None
NumDecoded == Cardinality({k \in DOMAIN probes : Decoded(probes[k])})

\* C2: in every run of the mapping classifier, if fewer than two probes
\* succeeded, no EIM or EDM verdict is logged: the run ends with the
\* insufficient-data line, and no exception leaves the classifier.
C2_Indeterminate ==
    prog = "mapping" =>
        /\ pc # "crashed"
        /\ (pc = "done" /\ NumDecoded < 2) => out = <<"Insufficient">>

\* Three probes, one of them successful.
C2_Witness ==
    /\ MappingDone
    /\ Len(probes) = 3
    /\ NumDecoded = 1
    /\ Len(results) = 1
    /\ out = <<"Insufficient">>

\* C4 as stated: every probe of a mapping batch is sent from the local port
\* of the batch's first probe, also with source_port = 0.
C4_AsStated ==
    prog = "mapping" =>
        \A j, k \in DOMAIN probes :
            (probes[j].local # None /\ probes[k].local # None) =>
                probes[j].local = probes[k].local

\* The external ports of the results, in probe order.
ExternalPorts == [k \in 1..Len(results) |-> results[k].port]

\* C5: for every non-empty sequence of successful external ports in probe
\* order, the differences are port[i] - port[i-1] for i >= 1 only, the
\* consecutive count is the number of i >= 1 with port[i] = port[i-1] + 1 and
\* is taken over count - 1 pairs (0 when count < 2), the duplicate count is
\* count - |distinct ports|, the range is max - min + 1, and the mean
\* difference is sum(diff) / (count - 1) (0 when count < 2). The ports
\* 5000, 5001, 5002, 5004 give 2 consecutive pairs of 3, no duplicate and
\* range 5.
C5_Statistics ==
    (AllocationDone /\ results # <<>>) =>
        LET ps == ExternalPorts
            n  == Len(ps)
            consecutive == Cardinality({k \in 2..n : ps[k] = ps[k - 1] + 1})
        IN  /\ out.nodata = FALSE
            /\ out.count = n
            /\ out.port_diff = [k \in 1..(n - 1) |-> ps[k + 1] - ps[k]]
            /\ out.consecutive_count = consecutive
            /\ out.consecutive_percentage =
                   IF n < 2 THEN Ratio(0, 1) ELSE Ratio(consecutive * 100, n - 1)
            /\ out.duplicate_count = n - Cardinality({ps[k] : k \in 1..n})
            /\ out.duplicate_percentage = Ratio(out.duplicate_count * 100, n)
            /\ \A k \in 1..n : out.min <= ps[k] /\ ps[k] <= out.max
            /\ \E k \in 1..n : out.min = ps[k]
            /\ \E k \in 1..n : out.max = ps[k]
            /\ out.range = out.max - out.min + 1
            /\ out.mean_diff =
                   IF n < 2 THEN Ratio(0, 1) ELSE Ratio(ps[n] - ps[1], n - 1)
            /\ ps = <<5000, 5001, 5002, 5004>> =>
                   /\ out.consecutive_percentage = Ratio(200, 3)
                   /\ out.duplicate_count = 0
                   /\ out.range = 5

C5_Witness ==
    /\ AllocationDone
    /\ ExternalPorts = <<5000, 5001, 5002, 5004>>
    /\ out.consecutive_count = 2
    /\ out.range = 5
    /\ out.mean_diff = Ratio(4, 3)

\* What the caller keeps of a probe: a decoded endpoint whose port is not 0.
Kept(p) == Decoded(p) /\ p.port # <<0>>
KeptProbes == SelectSeq(probes, Kept)

\* C6: a probe that fails in any way (bind or socket error, resolution
\* failure, timeout, undecodable response) never ends the batch: in both
\* programs no exception leaves the loop, every one of the batch's probes is
\* issued, a failed probe adds nothing to results, and the successful probes
\* are analysed.
C6_FailureIsLocal ==
    /\ pc # "crashed"
    /\ Len(probes) = i
    /\ Len(results) = Len(KeptProbes)
    /\ \A k \in DOMAIN results :
          /\ results[k].port = KeptProbes[k].port[1]
          /\ prog = "mapping" => results[k].ip = KeptProbes[k].ip
    /\ pc = "done" =>
          /\ Len(probes) = IF prog = "mapping" THEN NumSelected(num) ELSE num
          /\ prog = "mapping" =>
                 (out = <<"Insufficient">> <=> Len(KeptProbes) < 2)
          /\ prog = "allocation" =>
                 /\ out.nodata <=> KeptProbes = <<>>
                 /\ ~out.nodata => out.count = Len(KeptProbes)

\* A batch whose first probe got an undecodable response and whose next two
\* probes succeeded and were classified.
C6_Witness ==
    /\ MappingDone
    /\ Len(probes) = 3
    /\ probes[1].exc = <<"struct.error or OSError">>
    /\ Kept(probes[2]) /\ Kept(probes[3])
    /\ Len(results) = 2
    /\ out = <<"EIM">>

\* ------------------------------------------------------------------------
\* The sockets of a batch: get_external_address step by step
\* ------------------------------------------------------------------------

\* The loop a program is in, the number of probes it issues, and the local
\* port its next probe asks for.
LoopPc == IF prog = "mapping" THEN "map_loop" ELSE "alloc_loop"
NumProbes == IF prog = "mapping" THEN NumSelected(num) ELSE num
RequestedPort == IF prog = "mapping" THEN port_arg ELSE port_arg + i

SocketReplies == {Reply(<<203, 0, 113, 5>>, 40000), TruncatedReply}

\* The local ports held by sockets that are still open.
PortsInUse == {s.local[1] : s \in {t \in socks : t.local # None}}

\* socks after the call that created socket `id` has returned: sock.close()
\* is the last statement of the try body, so a call that left the body by an
\* exception returns with its socket still open.
SocksAfter(id, r) ==
    IF r.closed
      THEN {s \in socks : s.id # id}
      ELSE {s \in socks : s.id # id} \cup {[id |-> id, local |-> r.local]}

\* sock = socket.socket(socket.AF_INET, socket.SOCK_DGRAM), the first
\* statement of the call made by the loop's next iteration.
OpenSocket ==
    /\ pc = LoopPc
    /\ i < NumProbes
    /\ socks' = socks \cup {[id |-> i + 1, local |-> None]}
    /\ pc' = "in_try"
    /\ UNCHANGED <<prog, num, port_arg, i, results, probes, out, parseVars,
                   reqVars>>

\* The rest of the call and of the loop iteration: bind (which fails on a
\* port another open socket holds), the round trip, the parse, the close
\* when the body got that far, the except clauses, and the append.
RoundTrip ==
    /\ pc = "in_try"
    /\ \E local \in BoundPorts(RequestedPort), ev \in ProbeEvents(SocketReplies) :
          /\ ev.event # "bind_error" => local \notin PortsInUse
          /\ LET r == get_external_address(local, ev)
             IN  /\ probes' = Append(probes, ProbeRecord(RequestedPort, r))
                 /\ socks' = SocksAfter(i + 1, r)
                 /\ IF r.raised
                      THEN pc' = "crashed" /\ UNCHANGED <<i, results>>
                      ELSE /\ pc' = LoopPc
                           /\ i' = i + 1
                           /\ results' =
                                IF ~Truthy(r.ip, r.port) THEN results
                                ELSE IF prog = "mapping"
                                  THEN Append(results, [server |-> i + 1, ip |-> r.ip,
                                                        port |-> r.port[1]])
                                  ELSE Append(results, [local |-> r.local[1],
                                                        port |-> r.port[1]])
    /\ UNCHANGED <<prog, num, port_arg, out, parseVars, reqVars>>

\* The runtime finalises a socket object nothing refers to any more, which
\* closes it. The call that created it has returned; when this happens
\* after that is up to the interpreter's memory management (at once under
\* reference counting, at some later collection otherwise).
Collect ==
    /\ \E s \in socks :
          /\ s.id <= i
          /\ socks' = socks \ {s}
    /\ UNCHANGED <<pc, prog, num, port_arg, i, results, probes, out, parseVars,
                   reqVars>>

NextSockets == OpenSocket \/ RoundTrip \/ Collect \/ MapAnalyse \/ AllocAnalyse

SpecSockets == Init /\ [][NextSockets]_vars

\* C11 as stated: whatever the outcome of each probe, its socket is closed
\* before the next probe's socket is opened, so at most one probe socket is
\* open at any time.
C11_AsStated == Cardinality(socks) <= 1


\* The probes whose response decoded to an endpoint, in probe order.
DecodedProbes == SelectSeq(probes, Decoded)

\* C12 as stated: a probe adds a data point to results if and only if its
\* response decoded to an endpoint, whatever the endpoint's port (port 0
\* included), and the data points are in probe order.
C12_AsStated ==
    /\ Len(results) = Len(DecodedProbes)
    /\ \A k \in DOMAIN results :
          k <= Len(DecodedProbes) =>
              /\ results[k].port = DecodedProbes[k].port[1]
              /\ prog = "mapping" => results[k].ip = DecodedProbes[k].ip
              /\ prog = "allocation" => results[k].local = DecodedProbes[k].local[1]

====
